---- MODULE Spec2Model ----
(***************************************************************************)
(* Model of pyaccel's tracking module (src/pyaccel/tracking.py): the       *)
(* Python layer that validates arguments, reshapes particle positions,     *)
(* calls the native trackcpp engine and reshapes its outputs.              *)
(*                                                                         *)
(* Python values whose type matters to the code (None, strings, lists)     *)
(* are tagged records; numpy arrays are records of a shape and of the      *)
(* data, a function of 0-based index tuples.  The native engine is a       *)
(* nondeterministic environment: each native call picks an outcome.        *)
(***************************************************************************)
EXTENDS Integers, Sequences, FiniteSets, TLC

\* ------------------------------------------------------------- bounds
MaxParticles == 2
NrElements == 2
MaxTurns == 2
MaxStatus == 2

\* ------------------------------------------------------ python values
PyNone == [type |-> "NoneType"]
PyStr(s) == [type |-> "str", v |-> s]
PyInt(n) == [type |-> "int", v |-> n]
PyList(l) == [type |-> "list", v |-> l]

\* list.append(x)
append(lst, x) == PyList(Append(lst.v, x))

\* float('nan'): coordinates are naturals, NaN is the one negative value
NaN == -1

\* ------------------------------------------------------- numpy arrays
Indices(shape) ==
    CASE Len(shape) = 1 -> {<<a>> : a \in 0..(shape[1] - 1)}
      [] Len(shape) = 2 -> {<<a, b>> : a \in 0..(shape[1] - 1), b \in 0..(shape[2] - 1)}
      [] Len(shape) = 3 -> {<<a, b, c>> : a \in 0..(shape[1] - 1),
                                         b \in 0..(shape[2] - 1),
                                         c \in 0..(shape[3] - 1)}

\* numpy.zeros(shape) followed by .fill(v)
Filled(shape, v) == [shape |-> shape, data |-> [ix \in Indices(shape) |-> v]]

\* numpy.array(t) of a flat tuple t
Array1(t) == [shape |-> <<Len(t)>>, data |-> [ix \in Indices(<<Len(t)>>) |-> t[ix[1] + 1]]]

\* a[None,:] and numpy.array(a, ndmin=2)
NewAxis0(a) ==
    [shape |-> <<1>> \o a.shape,
     data |-> [ix \in Indices(<<1>> \o a.shape) |-> a.data[Tail(ix)]]]
AtLeast2d(a) == IF Len(a.shape) < 2 THEN NewAxis0(a) ELSE a

\* a[i,:] of a matrix
Row(a, i) ==
    [shape |-> <<a.shape[2]>>,
     data |-> [ix \in Indices(<<a.shape[2]>>) |-> a.data[<<i, ix[1]>>]]]

\* a[i,:] = v  and  a[i,:,j] = v
SetRow(a, i, v) ==
    [a EXCEPT !.data = [ix \in DOMAIN a.data |->
        IF ix[1] = i THEN v.data[<<ix[2]>>] ELSE a.data[ix]]]
SetFibre(a, i, j, v) ==
    [a EXCEPT !.data = [ix \in DOMAIN a.data |->
        IF ix[1] = i /\ ix[3] = j THEN v.data[<<ix[2]>>] ELSE a.data[ix]]]

\* a[0,:] and a[0,:,:]
Take0(a) ==
    [shape |-> Tail(a.shape),
     data |-> [ix \in Indices(Tail(a.shape)) |-> a.data[<<0>> \o ix]]]

Reverse(s) == [k \in 1..Len(s) |-> s[Len(s) + 1 - k]]

\* a final transposition left out
Transpose_omitted(a) == a

\* a.T
Transpose(a) ==
    [shape |-> Reverse(a.shape),
     data |-> [ix \in Indices(Reverse(a.shape)) |-> a.data[Reverse(ix)]]]

EmptyArray == [shape |-> <<0>>, data |-> [ix \in {} |-> NaN]]

\* a conversion that takes the last two coordinates in the other order
_Numpy2CppDoublePos_dl_de(p_in) ==
    [rx |-> p_in.data[<<0>>], px |-> p_in.data[<<1>>],
     ry |-> p_in.data[<<2>>], py |-> p_in.data[<<3>>],
     de |-> p_in.data[<<5>>], dl |-> p_in.data[<<4>>]]

\* -------------------------------------------- positions, conversions
_Numpy2CppDoublePos(p_in) ==
    [rx |-> p_in.data[<<0>>], px |-> p_in.data[<<1>>],
     ry |-> p_in.data[<<2>>], py |-> p_in.data[<<3>>],
     de |-> p_in.data[<<4>>], dl |-> p_in.data[<<5>>]]

\* a conversion that reads the fields plane by plane: positions, then momenta
_CppDoublePos2Numpy_by_plane(p_in) ==
    Array1(<<p_in.rx, p_in.ry, p_in.px, p_in.py, p_in.de, p_in.dl>>)

_CppDoublePos2Numpy(p_in) ==
    Array1(<<p_in.rx, p_in.px, p_in.ry, p_in.py, p_in.de, p_in.dl>>)

_CppDoublePos24Numpy(p_in) ==
    Array1(<<p_in.rx, p_in.px, p_in.ry, p_in.py>>)

\* _trackcpp.CppDoublePos(): the zero position
CppDoublePos == [rx |-> 0, px |-> 0, ry |-> 0, py |-> 0, de |-> 0, dl |-> 0]

\* ------------------------------------------------------ native engine
\* The engine (trackcpp) is outside the repository.  A coordinate v that has
\* gone through k element passes (or k turns) is the tagged value v + 100*k:
\* the tag tells which native output ended up in which array cell.
After(v, k) == IF v = NaN THEN NaN ELSE v + 100 * k

Tracked(p, k) ==
    [rx |-> After(p.rx, k), px |-> After(p.px, k),
     ry |-> After(p.ry, k), py |-> After(p.py, k),
     de |-> After(p.de, k), dl |-> After(p.dl, k)]

NaNPos == [rx |-> NaN, px |-> NaN, ry |-> NaN, py |-> NaN, de |-> NaN, dl |-> NaN]

\* native status codes; 0 is success
StatusCodes == 0..MaxStatus

\* _trackcpp.string_error_messages
string_error_messages == [r \in StatusCodes |-> PyStr(<<"trackcpp error", r>>)]

\* track_elementpass_wrapper(element, p_in, accelerator): p_in is updated in
\* place, the status is returned
track_elementpass_wrapper(p_in, r) == IF r = 0 THEN Tracked(p_in, 1) ELSE p_in

\* ------------------------------------------------------------- inputs
\* coordinate c of the p-th particle handed to a routine
Coord(p, c) == 10 * (p + 1) + c

\* the values of n particles as numpy.array(pos) lays them out
PositionMatrix(n) == [shape |-> <<n, 6>>, data |-> [ix \in Indices(<<n, 6>>) |-> Coord(ix[1], ix[2])]]
PositionVector == Row(PositionMatrix(1), 0)

\* the 'particles' argument: type(pos), type(pos[0]) and the numbers in it
FlatPositions ==
    {[type |-> t, item |-> "float", arr |-> PositionVector] : t \in {"list", "tuple", "ndarray"}}
ManyPositions ==
    {[type |-> t, item |-> it, arr |-> PositionMatrix(n)] :
        t \in {"list"}, it \in {"list", "ndarray"}, n \in 1..MaxParticles}
    \cup {[type |-> "ndarray", item |-> "ndarray", arr |-> PositionMatrix(n)] : n \in 1..MaxParticles}
Positions == FlatPositions \cup ManyPositions

\* range(n) as a python list of ints
range(n) == [k \in 1..n |-> k - 1]

\* ------------------------------------------------------ _process_args
\* isinstance(pos, (list,tuple)) and not isinstance(pos[0], (list,tuple))
is_flat_list(pos) == pos.type \in {"list", "tuple"} /\ pos.item \notin {"list", "tuple"}

_process_args(len_accelerator, pos, indices) ==
    [pos |-> IF pos.type \in {"list", "tuple"}
                THEN IF pos.item \in {"list", "tuple"} THEN pos.arr ELSE AtLeast2d(pos.arr)
                ELSE IF Len(pos.arr.shape) = 1 THEN AtLeast2d(pos.arr) ELSE pos.arr,
     return_ndarray |-> ~is_flat_list(pos),
     indices |-> IF indices = PyStr("open") THEN PyList(range(len_accelerator))
                 ELSE IF indices = PyStr("closed") THEN PyList(range(len_accelerator + 1))
                 ELSE indices]

\* -------------------------------------------------------------- state
VARIABLES
    pc,                 \* "idle", the routine running, "done" or "raised"
    call,               \* the routine called and its arguments
    particles,          \* locals of the running routine
    return_ndarray,
    indices,
    particles_out,
    i,
    lost_flag,
    lost_turn,
    lost_element,
    lost_plane,
    args,               \* the LinePassArgs / RingPassArgs object shared with the engine
    accelerator_built,  \* element_pass constructed its Accelerator
    native_calls,       \* every native call made so far, with what the engine answered
                        \* (its status, the loss plane and the positions it wrote)
    result,             \* the value returned
    exc                 \* the exception raised

locals == <<particles, return_ndarray, indices, particles_out, i,
            lost_flag, lost_turn, lost_element, lost_plane, args>>
vars == <<pc, call, particles, return_ndarray, indices, particles_out, i,
          lost_flag, lost_turn, lost_element, lost_plane, args,
          accelerator_built, native_calls, result, exc>>

TrackingException(msg) == [type |-> "TrackingException", msg |-> msg]

NoArgs == [element_offset |-> 0, lost_plane |-> 0, trajectory |-> FALSE,
           nr_turns |-> 0, lost_turn |-> 0, lost_element |-> 0]

\* an offset set once, before the loop over particles
set_element_offset_before_loop(a, element_offset) ==
    IF i = 0 THEN [a EXCEPT !.element_offset = element_offset] ELSE a

\* lines 204, 359: args.element_offset = element_offset, inside the loop
set_element_offset(a, element_offset) == [a EXCEPT !.element_offset = element_offset]

Init ==
    /\ pc = "idle"
    /\ call = [fn |-> "none"]
    /\ particles = EmptyArray
    /\ return_ndarray = TRUE
    /\ indices = PyNone
    /\ particles_out = EmptyArray
    /\ i = 0
    /\ lost_flag = FALSE
    /\ lost_turn = PyList(<<>>)
    /\ lost_element = PyList(<<>>)
    /\ lost_plane = PyList(<<>>)
    /\ args = NoArgs
    /\ accelerator_built = FALSE
    /\ native_calls = <<>>
    /\ result = PyNone
    /\ exc = PyNone

\* ------------------------------------------------------- element_pass
\* a variant: the last keyword is not asked for
keys_needed_short == <<"energy", "harmonic_number", "cavity_on", "radiation_on">>

\* line 68
keys_needed == <<"energy", "harmonic_number", "cavity_on", "radiation_on", "vchamber_on">>

\* the first key of keys_needed that kwargs lacks, 0 when none is missing
first_missing(kwargs) ==
    IF \A k \in 1..Len(keys_needed) : keys_needed[k] \in kwargs THEN 0
    ELSE CHOOSE k \in 1..Len(keys_needed) :
            /\ keys_needed[k] \notin kwargs
            /\ \A j \in 1..(k - 1) : keys_needed[j] \in kwargs

\* lines 67-82: argument check, Accelerator(**kwargs), _process_args, NaN fill
element_pass_call(kwargs, pos) ==
    /\ pc = "idle"
    /\ call' = [fn |-> "element_pass", particles |-> pos, kwargs |-> kwargs]
    /\ IF first_missing(kwargs) # 0
       THEN /\ pc' = "raised"
            /\ exc' = TrackingException(
                        PyStr(<<"missing '", keys_needed[first_missing(kwargs)], "' argument'">>))
            /\ UNCHANGED <<locals, accelerator_built>>
       ELSE LET pa == _process_args(0, pos, PyNone) IN
            /\ pc' = "element_pass"
            /\ accelerator_built' = TRUE
            /\ particles' = pa.pos
            /\ return_ndarray' = pa.return_ndarray
            /\ particles_out' = Filled(pa.pos.shape, NaN)
            /\ i' = 0
            /\ UNCHANGED <<indices, lost_flag, lost_turn, lost_element, lost_plane, args, exc>>
    /\ UNCHANGED <<native_calls, result>>

\* a variant: the failing particle is skipped and the loop goes on
element_pass_error_skipped ==
    /\ i' = i + 1
    /\ UNCHANGED <<pc, exc, particles_out>>

\* lines 86-87: a non-zero native status ends the call with TrackingException
element_pass_error ==
    /\ pc' = "raised"
    /\ exc' = TrackingException(PyNone)
    /\ UNCHANGED <<particles_out, i>>

\* lines 84-88: one turn of the loop over particles
element_pass_step ==
    /\ pc = "element_pass"
    /\ i < particles.shape[1]
    /\ \E r \in StatusCodes :
        LET p_in == _Numpy2CppDoublePos(Row(particles, i)) IN
        /\ native_calls' = Append(native_calls,
                [fn |-> "track_elementpass_wrapper", particle |-> i, status |-> r,
                 p_out |-> track_elementpass_wrapper(p_in, r)])
        /\ IF r # 0
           THEN element_pass_error
           ELSE /\ particles_out' = SetRow(particles_out, i,
                        _CppDoublePos2Numpy(track_elementpass_wrapper(p_in, r)))
                /\ i' = i + 1
                /\ UNCHANGED <<pc, exc>>
    /\ UNCHANGED <<call, particles, return_ndarray, indices, lost_flag, lost_turn,
                   lost_element, lost_plane, args, accelerator_built, result>>

\* lines 90-94
element_pass_return ==
    /\ pc = "element_pass"
    /\ i = particles.shape[1]
    /\ result' = IF particles_out.shape[1] = 1 /\ ~return_ndarray
                 THEN Take0(particles_out) ELSE particles_out
    /\ pc' = "done"
    /\ UNCHANGED <<call, locals, accelerator_built, native_calls, exc>>

element_pass ==
    \/ \E kwargs \in SUBSET {keys_needed[k] : k \in 1..Len(keys_needed)}, pos \in Positions :
        element_pass_call(kwargs, pos)
    \/ element_pass_step
    \/ element_pass_return

\* ---------------------------------------- native line and ring passes
lost_planes == <<PyNone, PyStr("x"), PyStr("y"), PyStr("z")>>

\* The engine's status for a lost particle; every other non-zero status is an
\* error that is no loss (as the element pass reports them).
particle_lost == MaxStatus
ErrorCodes == 1..(MaxStatus - 1)

\* where the engine may stop: at the first element of the first turn, or at
\* the last element of the last turn
LossPoints(nr_turns) ==
    {[at |-> 0, turn |-> 0], [at |-> NrElements - 1, turn |-> nr_turns - 1]}

\* what one native pass can answer: the status returned, the plane of the
\* loss (0: none), the elements and turns completed before it stopped
Outcomes(nr_turns) ==
    {[status |-> 0, plane |-> 0, at |-> 0, turn |-> nr_turns]}
    \cup {[status |-> particle_lost, plane |-> pl, at |-> w.at, turn |-> w.turn] :
            pl \in 1..(Len(lost_planes) - 1), w \in LossPoints(nr_turns)}
    \cup {[status |-> r, plane |-> 0, at |-> 0, turn |-> 0] : r \in ErrorCodes}

\* track_linepass_wrapper(accelerator, p_in, p_out, args): the engine writes
\* args.lost_plane on every call and leaves args.element_offset at the element
\* where it stopped; p_out holds the position at the entrance of every element
\* and at the end of the line (trajectory), or the final position alone.
track_linepass_wrapper(p_in, a, o) ==
    [status |-> o.status,
     p_out |-> IF a.trajectory
               THEN [e \in 0..NrElements |->
                        IF o.status = 0 \/ e <= o.at THEN Tracked(p_in, e) ELSE NaNPos]
               ELSE [e \in {0} |-> IF o.status = 0 THEN Tracked(p_in, NrElements) ELSE NaNPos],
     args |-> [a EXCEPT !.lost_plane = o.plane,
                        !.element_offset = (a.element_offset + o.at) % NrElements]]

\* track_ringpass_wrapper(accelerator, p_in, p_out, args): p_out holds the
\* position at the end of every turn (trajectory), or the final one alone.
track_ringpass_wrapper(p_in, a, o) ==
    [status |-> o.status,
     p_out |-> IF a.trajectory
               THEN [n \in 0..(a.nr_turns - 1) |->
                        IF o.status = 0 \/ n < o.turn THEN Tracked(p_in, n + 1) ELSE NaNPos]
               ELSE [n \in {0} |-> IF o.status = 0 THEN Tracked(p_in, a.nr_turns) ELSE NaNPos],
     args |-> [a EXCEPT !.lost_plane = o.plane,
                        !.lost_turn = o.turn,
                        !.lost_element = (a.element_offset + o.at) % NrElements,
                        !.element_offset = (a.element_offset + o.at) % NrElements]]

\* the 'indices' and 'element_offset' arguments
IndexLists ==
    {<<>>} \cup {<<a>> : a \in 0..NrElements} \cup {<<a, b>> : a, b \in {0, NrElements}}
IndexChoices == {PyNone, PyStr("open"), PyStr("closed")} \cup {PyList(l) : l \in IndexLists}
Offsets == {0, NrElements - 1}

\* ---------------------------------------------------------- line_pass
\* lines 228-235: the single-particle simplification of an array
simplify_array(a) == Take0(a)

\* lines 229, 393
simplifies(lst, ret_ndarray) == Len(lst.v) = 1 /\ ~ret_ndarray

\* a variant: the entry is filled whether or not a plane was reported
loss_entry_unconditional(a, v) == v

\* lines 221-226, 383-390: the entry of a loss list for one particle
loss_entry(a, v) == IF a.lost_plane # 0 THEN v ELSE PyNone

\* lines 183-198
line_pass_call(pos, ind, element_offset) ==
    /\ pc = "idle"
    /\ call' = [fn |-> "line_pass", particles |-> pos, indices |-> ind,
                element_offset |-> element_offset]
    /\ LET pa == _process_args(NrElements, pos, ind) IN
        /\ args' = [NoArgs EXCEPT !.trajectory = (ind # PyNone)]
        /\ particles' = pa.pos
        /\ return_ndarray' = pa.return_ndarray
        /\ indices' = pa.indices
        /\ particles_out' = IF pa.indices = PyNone
                            THEN Filled(<<pa.pos.shape[1], 6>>, NaN)
                            ELSE Filled(<<pa.pos.shape[1], 6, Len(pa.indices.v)>>, NaN)
    /\ lost_flag' = FALSE
    /\ lost_element' = PyList(<<>>)
    /\ lost_plane' = PyList(<<>>)
    /\ i' = 0
    /\ pc' = "line_pass"
    /\ UNCHANGED <<lost_turn, accelerator_built, native_calls, result, exc>>

\* a store that takes trajectory entry j for the j-th index
line_pass_store_in_sequence(out, k, ind, p_out) ==
    IF ind = PyNone
    THEN SetRow(out, k, _CppDoublePos2Numpy(p_out[0]))
    ELSE [out EXCEPT !.data = [ix \in DOMAIN out.data |->
            IF ix[1] = k
            THEN _CppDoublePos2Numpy(p_out[ix[3]]).data[<<ix[2]>>]
            ELSE out.data[ix]]]

\* lines 214-218: particles_out[i,:] = p_out[0], or
\* particles_out[i,:,j] = p_out[indices[j]] for every j
line_pass_store(out, k, ind, p_out) ==
    IF ind = PyNone
    THEN SetRow(out, k, _CppDoublePos2Numpy(p_out[0]))
    ELSE [out EXCEPT !.data = [ix \in DOMAIN out.data |->
            IF ix[1] = k
            THEN _CppDoublePos2Numpy(p_out[ind.v[ix[3] + 1]]).data[<<ix[2]>>]
            ELSE out.data[ix]]]

\* lines 201-226: one turn of the loop over particles
line_pass_step ==
    /\ pc = "line_pass"
    /\ i < particles.shape[1]
    /\ \E o \in Outcomes(1) :
        LET args_in == set_element_offset(args, call.element_offset)
            p_in == _Numpy2CppDoublePos(Row(particles, i))
            nat == track_linepass_wrapper(p_in, args_in, o)
        IN
        /\ native_calls' = Append(native_calls,
                [fn |-> "track_linepass_wrapper", particle |-> i,
                 element_offset |-> args_in.element_offset,
                 status |-> nat.status, lost_plane |-> nat.args.lost_plane,
                 p_out |-> nat.p_out])
        /\ args' = nat.args
        /\ lost_flag' = IF nat.status # 0 THEN TRUE ELSE lost_flag
        /\ particles_out' = line_pass_store(particles_out, i, indices, nat.p_out)
        /\ lost_element' = append(lost_element,
                                  loss_entry(nat.args, PyInt(nat.args.element_offset)))
        /\ lost_plane' = append(lost_plane,
                                loss_entry(nat.args, lost_planes[nat.args.lost_plane + 1]))
    /\ i' = i + 1
    /\ UNCHANGED <<pc, call, particles, return_ndarray, indices, lost_turn,
                   accelerator_built, result, exc>>

\* lines 228-237
line_pass_return ==
    /\ pc = "line_pass"
    /\ i = particles.shape[1]
    /\ result' = IF simplifies(lost_element, return_ndarray)
                 THEN [particles_out |-> simplify_array(particles_out),
                       lost_flag |-> lost_flag,
                       lost_element |-> lost_element.v[1],
                       lost_plane |-> lost_plane.v[1]]
                 ELSE [particles_out |-> particles_out,
                       lost_flag |-> lost_flag,
                       lost_element |-> lost_element,
                       lost_plane |-> lost_plane]
    /\ pc' = "done"
    /\ UNCHANGED <<call, locals, accelerator_built, native_calls, exc>>

line_pass ==
    \/ \E pos \in Positions, ind \in IndexChoices, element_offset \in Offsets :
        line_pass_call(pos, ind, element_offset)
    \/ line_pass_step
    \/ line_pass_return

\* ---------------------------------------------------------- ring_pass
TurnByTurnChoices == {PyNone, PyStr("closed"), PyStr("open"), PyStr("close")}

\* python truth value of the turn_by_turn argument
truthy(x) == x # PyNone /\ x # PyStr("")

\* lines 339-354
ring_pass_call(pos, nr_turns, turn_by_turn, element_offset) ==
    /\ pc = "idle"
    /\ call' = [fn |-> "ring_pass", particles |-> pos, nr_turns |-> nr_turns,
                turn_by_turn |-> turn_by_turn, element_offset |-> element_offset]
    /\ LET pa == _process_args(NrElements, pos, PyNone) IN
        /\ particles' = pa.pos
        /\ return_ndarray' = pa.return_ndarray
        /\ particles_out' = IF truthy(turn_by_turn)
                            THEN Filled(<<pa.pos.shape[1], 6, nr_turns>>, NaN)
                            ELSE Filled(<<pa.pos.shape[1], 6>>, NaN)
    /\ lost_flag' = FALSE
    /\ lost_turn' = PyList(<<>>)
    /\ lost_element' = PyList(<<>>)
    /\ lost_plane' = PyList(<<>>)
    /\ args' = [NoArgs EXCEPT !.nr_turns = nr_turns, !.trajectory = truthy(turn_by_turn)]
    /\ i' = 0
    /\ pc' = "ring_pass"
    /\ UNCHANGED <<indices, accelerator_built, native_calls, result, exc>>

\* a store that treats 'open' as 'closed'
ring_pass_store_unshifted(out, k, turn_by_turn, nr_turns, p_in, p_out) ==
    IF truthy(turn_by_turn)
    THEN IF turn_by_turn \in {PyStr("closed"), PyStr("open")}
         THEN [out EXCEPT !.data = [ix \in DOMAIN out.data |->
                IF ix[1] = k
                THEN _CppDoublePos2Numpy(p_out[ix[3]]).data[<<ix[2]>>]
                ELSE out.data[ix]]]
         ELSE out
    ELSE SetRow(out, k, _CppDoublePos2Numpy(p_out[0]))

\* lines 370-380
ring_pass_store(out, k, turn_by_turn, nr_turns, p_in, p_out) ==
    IF truthy(turn_by_turn)
    THEN IF turn_by_turn = PyStr("closed")
         THEN [out EXCEPT !.data = [ix \in DOMAIN out.data |->
                IF ix[1] = k
                THEN _CppDoublePos2Numpy(p_out[ix[3]]).data[<<ix[2]>>]
                ELSE out.data[ix]]]
         ELSE IF turn_by_turn = PyStr("open")
         THEN [out EXCEPT !.data = [ix \in DOMAIN out.data |->
                IF ix[1] = k
                THEN IF ix[3] = 0
                     THEN p_in.data[<<ix[2]>>]
                     ELSE _CppDoublePos2Numpy(p_out[ix[3] - 1]).data[<<ix[2]>>]
                ELSE out.data[ix]]]
         ELSE out
    ELSE SetRow(out, k, _CppDoublePos2Numpy(p_out[0]))

\* lines 357-390: one turn of the loop over particles
ring_pass_step ==
    /\ pc = "ring_pass"
    /\ i < particles.shape[1]
    /\ \E o \in Outcomes(args.nr_turns) :
        LET args_in == set_element_offset(args, call.element_offset)
            p_in == _Numpy2CppDoublePos(Row(particles, i))
            nat == track_ringpass_wrapper(p_in, args_in, o)
        IN
        /\ native_calls' = Append(native_calls,
                [fn |-> "track_ringpass_wrapper", particle |-> i,
                 element_offset |-> args_in.element_offset,
                 status |-> nat.status, lost_plane |-> nat.args.lost_plane,
                 p_out |-> nat.p_out])
        /\ args' = nat.args
        /\ lost_flag' = IF nat.status # 0 THEN TRUE ELSE lost_flag
        /\ particles_out' = ring_pass_store(particles_out, i, call.turn_by_turn,
                                            call.nr_turns, Row(particles, i), nat.p_out)
        /\ lost_turn' = append(lost_turn, loss_entry(nat.args, PyInt(nat.args.lost_turn)))
        /\ lost_element' = append(lost_element,
                                  loss_entry(nat.args, PyInt(nat.args.lost_element)))
        /\ lost_plane' = append(lost_plane,
                                loss_entry(nat.args, lost_planes[nat.args.lost_plane + 1]))
    /\ i' = i + 1
    /\ UNCHANGED <<pc, call, particles, return_ndarray, indices,
                   accelerator_built, result, exc>>

\* lines 392-402
ring_pass_return ==
    /\ pc = "ring_pass"
    /\ i = particles.shape[1]
    /\ result' = IF simplifies(lost_element, return_ndarray)
                 THEN [particles_out |-> simplify_array(particles_out),
                       lost_flag |-> lost_flag,
                       lost_turn |-> lost_turn.v[1],
                       lost_element |-> lost_element.v[1],
                       lost_plane |-> lost_plane.v[1]]
                 ELSE [particles_out |-> particles_out,
                       lost_flag |-> lost_flag,
                       lost_turn |-> lost_turn,
                       lost_element |-> lost_element,
                       lost_plane |-> lost_plane]
    /\ pc' = "done"
    /\ UNCHANGED <<call, locals, accelerator_built, native_calls, exc>>

ring_pass ==
    \/ \E pos \in Positions, nr_turns \in 1..MaxTurns, turn_by_turn \in TurnByTurnChoices,
          element_offset \in Offsets :
        ring_pass_call(pos, nr_turns, turn_by_turn, element_offset)
    \/ ring_pass_step
    \/ ring_pass_return

\* ------------------------------------------- closed orbit and matrices
\* a variant: the first error code is taken for a success
native_failed_above_one(r) == r > 1

\* lines 457, 518, 574, 609, 624: the test made on a native return code
native_failed(r) == r > 0

\* the closed orbit the engine finds: one position at the entrance of every
\* element, tagged with the element
native_closed_orbit ==
    [e \in 0..(NrElements - 1) |-> _Numpy2CppDoublePos(Row(PositionMatrix(NrElements), e))]

\* the matrices the engine finds: _m[r][c], tagged with the element
native_matrix(e) == [r \in 0..5 |-> [c \in 0..5 |-> 1000 * (e + 1) + 10 * r + c]]
native_m66 == native_matrix(NrElements)
native_cumul_trans_matrices == [e \in 0..(NrElements - 1) |-> native_matrix(e)]

_4Numpy2CppDoublePos(p_in) ==
    [rx |-> p_in.data[<<0>>], px |-> p_in.data[<<1>>],
     ry |-> p_in.data[<<2>>], py |-> p_in.data[<<3>>],
     de |-> 0, dl |-> 0]

_CppMatrix2Numpy(_m) ==
    [shape |-> <<6, 6>>, data |-> [ix \in Indices(<<6, 6>>) |-> _m[ix[1]][ix[2]]]]

_CppMatrix24Numpy(_m) ==
    [shape |-> <<4, 4>>, data |-> [ix \in Indices(<<4, 4>>) |-> _m[ix[1]][ix[2]]]]

\* lines 463-474: closed_orbit[i] = _CppDoublePos24Numpy(_closed_orbit[sel[i]])
orbit4_rows(sel) ==
    [shape |-> <<Len(sel), 4>>,
     data |-> [ix \in Indices(<<Len(sel), 4>>) |->
                _CppDoublePos24Numpy(native_closed_orbit[sel[ix[1] + 1]]).data[<<ix[2]>>]]]

\* lines 524-535: closed_orbit[i] = _CppDoublePos2Numpy(_closed_orbit[sel[i]])
orbit6_rows(sel) ==
    [shape |-> <<Len(sel), 6>>,
     data |-> [ix \in Indices(<<Len(sel), 6>>) |->
                _CppDoublePos2Numpy(native_closed_orbit[sel[ix[1] + 1]]).data[<<ix[2]>>]]]

\* the 'indices' argument of find_orbit4 and find_orbit6; an int is no valid value
OrbitIndexChoices ==
    {PyNone, PyStr("open"), PyStr("closed"), PyInt(0)}
    \cup {PyList(l) : l \in {<<>>, <<0>>, <<NrElements - 1, 0>>}}

\* lines 460-478: the array built before the final transposition
find_orbit4_select(ind) ==
    IF ind = PyNone THEN _CppDoublePos24Numpy(native_closed_orbit[0])
    ELSE IF ind = PyStr("open") THEN orbit4_rows(range(NrElements))
    ELSE IF ind = PyStr("closed")
        THEN orbit4_rows(Append(range(NrElements), 0))
    ELSE orbit4_rows(ind.v)

\* lines 521-539
find_orbit6_select(ind) ==
    IF ind = PyNone THEN NewAxis0(_CppDoublePos2Numpy(native_closed_orbit[0]))
    ELSE IF ind = PyStr("open") THEN orbit6_rows(range(NrElements))
    ELSE IF ind = PyStr("closed")
        THEN orbit6_rows(Append(range(NrElements), 0))
    ELSE orbit6_rows(ind.v)

\* what follows the native call of find_orbit4 and find_orbit6
find_orbit_finish(r, ind, selected, name) ==
    IF native_failed(r)
    THEN /\ pc' = "raised"
         /\ exc' = TrackingException(string_error_messages[r])
         /\ UNCHANGED result
    ELSE IF ind.type \notin {"NoneType", "str", "list"}
    THEN /\ pc' = "raised"
         /\ exc' = TrackingException(PyStr(<<"invalid value for 'indices' in ", name>>))
         /\ UNCHANGED result
    ELSE /\ pc' = "done"
         /\ result' = Transpose(selected)
         /\ UNCHANGED exc

\* lines 448-478
find_orbit4(energy_offset, ind, fixed_point_guess) ==
    /\ pc = "idle"
    /\ call' = [fn |-> "find_orbit4", energy_offset |-> energy_offset, indices |-> ind,
                fixed_point_guess |-> fixed_point_guess]
    /\ \E r \in StatusCodes :
        LET guess == [(IF fixed_point_guess = PyNone THEN CppDoublePos
                       ELSE _4Numpy2CppDoublePos(fixed_point_guess.arr))
                      EXCEPT !.de = energy_offset] IN
        /\ native_calls' = Append(native_calls,
                [fn |-> "track_findorbit4", fixed_point_guess |-> guess, status |-> r])
        /\ find_orbit_finish(r, ind, find_orbit4_select(ind), "findorbit4")
    /\ UNCHANGED <<locals, accelerator_built>>

\* lines 510-539
find_orbit6(ind, fixed_point_guess) ==
    /\ pc = "idle"
    /\ call' = [fn |-> "find_orbit6", indices |-> ind,
                fixed_point_guess |-> fixed_point_guess]
    /\ \E r \in StatusCodes :
        LET guess == IF fixed_point_guess = PyNone THEN CppDoublePos
                     ELSE _Numpy2CppDoublePos(fixed_point_guess.arr) IN
        /\ native_calls' = Append(native_calls,
                [fn |-> "track_findorbit6", fixed_point_guess |-> guess, status |-> r])
        /\ find_orbit_finish(r, ind, find_orbit6_select(ind), "findorbit6")
    /\ UNCHANGED <<locals, accelerator_built>>

\* lines 555-583
find_m66(ind, closed_orbit) ==
    /\ pc = "idle"
    /\ call' = [fn |-> "find_m66", indices |-> ind, closed_orbit |-> closed_orbit]
    /\ \E r \in StatusCodes :
        /\ native_calls' = Append(native_calls, [fn |-> "track_findm66", status |-> r])
        /\ IF native_failed(r)
           THEN /\ pc' = "raised"
                /\ exc' = TrackingException(string_error_messages[r])
                /\ UNCHANGED result
           ELSE /\ pc' = "done"
                /\ result' = IF ind = PyStr("m66")
                             THEN [m66 |-> _CppMatrix2Numpy(native_m66)]
                             ELSE [m66 |-> _CppMatrix2Numpy(native_m66),
                                   cumul_trans_matrices |->
                                        [type |-> "MatrixList", v |-> native_cumul_trans_matrices]]
                /\ UNCHANGED exc
    /\ UNCHANGED <<locals, accelerator_built>>

\* lines 600-635: the closed orbit is searched first when none is given
find_m44(ind, energy_offset, closed_orbit) ==
    /\ pc = "idle"
    /\ call' = [fn |-> "find_m44", indices |-> ind, energy_offset |-> energy_offset,
                closed_orbit |-> closed_orbit]
    /\ \E r1, r2 \in StatusCodes :
        LET guess == [CppDoublePos EXCEPT !.de = energy_offset]
            orbit_calls == IF closed_orbit = PyNone
                           THEN <<[fn |-> "track_findorbit4", fixed_point_guess |-> guess,
                                   status |-> r1]>>
                           ELSE <<>>
            orbit_failed == closed_orbit = PyNone /\ native_failed(r1)
        IN
        IF orbit_failed
        THEN /\ native_calls' = native_calls \o orbit_calls
             /\ pc' = "raised"
             /\ exc' = TrackingException(string_error_messages[r1])
             /\ UNCHANGED result
        ELSE /\ native_calls' = (native_calls \o orbit_calls)
                                    \o <<[fn |-> "track_findm66", status |-> r2]>>
             /\ IF native_failed(r2)
                THEN /\ pc' = "raised"
                     /\ exc' = TrackingException(string_error_messages[r2])
                     /\ UNCHANGED result
                ELSE /\ pc' = "done"
                     /\ result' = IF ind = PyStr("m44")
                                  THEN [m44 |-> _CppMatrix24Numpy(native_m66)]
                                  ELSE [m44 |-> _CppMatrix24Numpy(native_m66),
                                        cumul_trans_matrices |->
                                            PyList([k \in 1..NrElements |->
                                                _CppMatrix24Numpy(native_cumul_trans_matrices[k - 1])])]
                     /\ UNCHANGED exc
    /\ UNCHANGED <<locals, accelerator_built>>

\* the arguments tried: a guess or an orbit is absent, or one flat python list
GuessChoices == {PyNone, [type |-> "list", item |-> "float", arr |-> PositionVector]}
EnergyOffsets == {0, 1}

find_orbit ==
    \/ \E energy_offset \in EnergyOffsets, ind \in OrbitIndexChoices, guess \in GuessChoices :
        find_orbit4(energy_offset, ind, guess)
    \/ \E ind \in OrbitIndexChoices, guess \in GuessChoices :
        find_orbit6(ind, guess)

find_matrix ==
    \/ \E ind \in {PyNone, PyStr("m66")}, closed_orbit \in GuessChoices :
        find_m66(ind, closed_orbit)
    \/ \E ind \in {PyNone, PyStr("m44")}, energy_offset \in EnergyOffsets,
          closed_orbit \in GuessChoices :
        find_m44(ind, energy_offset, closed_orbit)

Next ==
    \/ element_pass
    \/ line_pass
    \/ ring_pass
    \/ find_orbit
    \/ find_matrix

Spec == Init /\ [][Next]_vars

\* ============================================================== claims
\* the native calls of the running routine, one per particle tracked so far
NativeCall(p) == native_calls[p + 1]

\* entry p of a loss list, or the single value that stands for it
Entry(x, p) == IF x.type = "list" THEN x.v[p + 1] ELSE x

\* coordinate c of a native position, c counted as rx, px, ry, py, de, dl
FieldAt(pos, c) == <<pos.rx, pos.px, pos.ry, pos.py, pos.de, pos.dl>>[c + 1]

\* C1: in element_pass a non-zero native status for any particle of the batch
\* raises TrackingException, nothing is returned (not even the positions of
\* the particles tracked before), and no later particle reaches the engine.
C1_ElementPassErrorRaises ==
    call.fn = "element_pass" =>
        \A k \in 1..Len(native_calls) :
            native_calls[k].status # 0 =>
                /\ pc = "raised"
                /\ exc # PyNone
                /\ exc.type = "TrackingException"
                /\ result = PyNone
                /\ k = Len(native_calls)
                /\ native_calls[k].particle = k - 1

\* C1 witness: the second particle of a batch fails after the first was tracked
C1_Witness ==
    /\ call.fn = "element_pass"
    /\ pc = "raised"
    /\ Len(native_calls) = 2
    /\ native_calls[1].status = 0
    /\ native_calls[2].status # 0
    /\ particles_out.data[<<0, 0>>] # NaN

RequiredKeywords == {"energy", "harmonic_number", "cavity_on", "radiation_on", "vchamber_on"}

IsMissingArgument(e) ==
    /\ e # PyNone
    /\ e.type = "TrackingException"
    /\ e.msg # PyNone
    /\ e.msg.v[1] = "missing '"

\* C2: element_pass raises TrackingException whenever one of the five keyword
\* arguments is missing, before the Accelerator is built and before any native
\* call; with all five present no missing-argument exception is raised.
C2_MissingKeywordRaisesFirst ==
    call.fn = "element_pass" =>
        IF RequiredKeywords \subseteq call.kwargs
        THEN ~IsMissingArgument(exc)
        ELSE /\ pc = "raised"
             /\ IsMissingArgument(exc)
             /\ exc.msg.v[2] \in RequiredKeywords \ call.kwargs
             /\ ~accelerator_built
             /\ native_calls = <<>>
             /\ result = PyNone

\* C2 witness: a call with four of the five keywords has raised
C2_Witness ==
    /\ call.fn = "element_pass"
    /\ call.kwargs = RequiredKeywords \ {"vchamber_on"}
    /\ pc = "raised"
    /\ IsMissingArgument(exc)

OrbitAndMatrixRoutines == {"find_orbit4", "find_orbit6", "find_m66", "find_m44"}

\* C3: in find_orbit4, find_orbit6, find_m66 and find_m44 a native return code
\* r > 0 raises TrackingException with the native error string of r and nothing
\* is returned; with r <= 0 no exception comes from the native code and the
\* routine builds its result (or rejects an invalid 'indices').
C3_NativeCodeForwarded ==
    call.fn \in OrbitAndMatrixRoutines =>
        /\ \A k \in 1..Len(native_calls) :
            native_calls[k].status > 0 =>
                /\ pc = "raised"
                /\ exc = TrackingException(string_error_messages[native_calls[k].status])
                /\ result = PyNone
                /\ k = Len(native_calls)
        /\ (\A k \in 1..Len(native_calls) : native_calls[k].status <= 0) =>
                \/ pc = "done" /\ result # PyNone /\ exc = PyNone
                \/ /\ pc = "raised"
                   /\ call.fn \in {"find_orbit4", "find_orbit6"}
                   /\ call.indices.type \notin {"NoneType", "str", "list"}
                   /\ exc.msg.v[1] = "invalid value for 'indices' in "

\* C3 witness: find_m44 found its closed orbit and then failed on the matrix
C3_Witness ==
    /\ call.fn = "find_m44"
    /\ pc = "raised"
    /\ Len(native_calls) = 2
    /\ native_calls[1].status = 0
    /\ native_calls[2].status > 0

\* C4: line_pass and ring_pass give every particle that survived None in
\* lost_element and lost_plane (and lost_turn), and every particle lost in the
\* horizontal or vertical plane 'x' or 'y' in lost_plane, also when an earlier
\* particle of the batch was lost.
C4_LossEntriesPerParticle ==
    (pc = "done" /\ call.fn \in {"line_pass", "ring_pass"}) =>
        \A p \in 0..(particles.shape[1] - 1) :
            /\ NativeCall(p).status = 0 =>
                /\ Entry(result.lost_element, p) = PyNone
                /\ Entry(result.lost_plane, p) = PyNone
                /\ call.fn = "ring_pass" => Entry(result.lost_turn, p) = PyNone
            /\ NativeCall(p).lost_plane = 1 => Entry(result.lost_plane, p) = PyStr("x")
            /\ NativeCall(p).lost_plane = 2 => Entry(result.lost_plane, p) = PyStr("y")

\* C4 witness: the first particle was lost in x, the second survived
C4_Witness ==
    /\ pc = "done"
    /\ call.fn = "ring_pass"
    /\ Len(native_calls) = 2
    /\ NativeCall(0).lost_plane = 1
    /\ NativeCall(1).status = 0
    /\ result.lost_plane = PyList(<<PyStr("x"), PyNone>>)

\* C5: lost_flag of line_pass and ring_pass is True exactly when some particle
\* has a non-None entry in lost_plane (equivalently in lost_element).
C5_LostFlagIffLossEntry ==
    (pc = "done" /\ call.fn \in {"line_pass", "ring_pass"}) =>
        LET Np == particles.shape[1] IN
        /\ result.lost_flag <=> \E p \in 0..(Np - 1) : Entry(result.lost_plane, p) # PyNone
        /\ \A p \in 0..(Np - 1) :
            Entry(result.lost_plane, p) # PyNone <=> Entry(result.lost_element, p) # PyNone

\* ------------------------------------------------ shapes and layouts
\* the forms of the 'particles' argument
GivenFlatList(pos) == pos.type \in {"list", "tuple"} /\ pos.item = "float"
GivenListOfParticles(pos) == pos.type \in {"list", "tuple"} /\ pos.item # "float"
GivenMatrix(pos) == pos.type = "ndarray" /\ Len(pos.arr.shape) = 2

\* the number of particles given
GivenNp(pos) == IF Len(pos.arr.shape) = 1 THEN 1 ELSE pos.arr.shape[1]

\* the elements line_pass was asked for, as the sequence 'indices' stands for
SelectedElements ==
    IF call.indices = PyStr("open") THEN range(NrElements)
    ELSE IF call.indices = PyStr("closed") THEN range(NrElements + 1)
    ELSE IF call.indices = PyNone THEN <<>>
    ELSE call.indices.v

\* the position the engine stored for particle p at trajectory entry k
NativeEntry(p, k, c) == FieldAt(NativeCall(p).p_out[k], c)

\* C6: the shape of line_pass's particles_out: (1) flat list, indices None: the
\* 6 coordinates; (2) list of particles or 2D array, indices None: (Np, 6),
\* particle then coordinate; (3) flat list, indices given: (6, len(indices));
\* (4) many particles, indices given: (Np, 6, len(indices)).
C6_LinePassShapes ==
    (pc = "done" /\ call.fn = "line_pass") =>
        LET out == result.particles_out
            pos == call.particles
            Np == GivenNp(pos)
            sel == SelectedElements
            many == GivenListOfParticles(pos) \/ GivenMatrix(pos)
        IN
        /\ (GivenFlatList(pos) /\ call.indices = PyNone) =>
            /\ out.shape = <<6>>
            /\ \A c \in 0..5 : out.data[<<c>>] = NativeEntry(0, 0, c)
        /\ (many /\ call.indices = PyNone) =>
            /\ out.shape = <<Np, 6>>
            /\ \A q \in 0..(Np - 1), c \in 0..5 : out.data[<<q, c>>] = NativeEntry(q, 0, c)
        /\ (GivenFlatList(pos) /\ call.indices # PyNone) =>
            /\ out.shape = <<6, Len(sel)>>
            /\ \A c \in 0..5, j \in 0..(Len(sel) - 1) :
                out.data[<<c, j>>] = NativeEntry(0, sel[j + 1], c)
        /\ (many /\ call.indices # PyNone) =>
            /\ out.shape = <<Np, 6, Len(sel)>>
            /\ \A q \in 0..(Np - 1), c \in 0..5, j \in 0..(Len(sel) - 1) :
                out.data[<<q, c, j>>] = NativeEntry(q, sel[j + 1], c)

\* the positions a tracking routine returned
ReturnedPositions == IF call.fn = "element_pass" THEN result ELSE result.particles_out

\* C7: element_pass, line_pass and ring_pass drop the particle index of
\* particles_out, and line_pass and ring_pass return single loss values, if and
\* only if the particle was given as a flat list or tuple of coordinates; a
\* single particle given any other way keeps a particle index of size 1 and
\* gets loss lists of length 1.
C7_SimplifiedIffFlatList ==
    (pc = "done" /\ call.fn \in {"element_pass", "line_pass", "ring_pass"}) =>
        LET flat == GivenFlatList(call.particles)
            out == ReturnedPositions
        IN
        /\ flat <=> Len(out.shape) = Len(particles_out.shape) - 1
        /\ ~flat => Len(out.shape) = Len(particles_out.shape)
                        /\ out.shape[1] = GivenNp(call.particles)
        /\ call.fn # "element_pass" =>
            /\ flat <=> result.lost_element.type # "list"
            /\ flat <=> result.lost_plane.type # "list"
            /\ ~flat => /\ result.lost_element.type = "list"
                        /\ Len(result.lost_element.v) = GivenNp(call.particles)
                        /\ result.lost_plane.type = "list"
                        /\ Len(result.lost_plane.v) = GivenNp(call.particles)
        /\ call.fn = "ring_pass" =>
            /\ flat <=> result.lost_turn.type # "list"
            /\ ~flat => /\ result.lost_turn.type = "list"
                        /\ Len(result.lost_turn.v) = GivenNp(call.particles)

\* ring_pass was given a list of particles or a matrix and no turn_by_turn
RingPassOfMany ==
    /\ pc = "done"
    /\ call.fn = "ring_pass"
    /\ call.turn_by_turn = PyNone
    /\ GivenListOfParticles(call.particles) \/ GivenMatrix(call.particles)

OneItemListOfVector(pos) ==
    pos.type \in {"list", "tuple"} /\ pos.item = "ndarray" /\ GivenNp(pos) = 1

PCEN == <<"p", "c", "e", "n">>

\* the axes a routine's positions can have
AxesOf(fn) ==
    IF fn = "element_pass" THEN {"p", "c"}
    ELSE IF fn = "line_pass" THEN {"p", "c", "e"}
    ELSE IF fn = "ring_pass" THEN {"p", "c", "n"}
    ELSE {"c", "e"}

\* the elements find_orbit4 and find_orbit6 were asked for
OrbitElements ==
    IF call.indices = PyNone THEN <<0>>
    ELSE IF call.indices = PyStr("open") THEN range(NrElements)
    ELSE IF call.indices = PyStr("closed") THEN Append(range(NrElements), 0)
    ELSE call.indices.v

\* the size of each axis of the call at hand
Extent(axis) ==
    IF axis = "p" THEN GivenNp(call.particles)
    ELSE IF axis = "c" THEN (IF call.fn = "find_orbit4" THEN 4 ELSE 6)
    ELSE IF axis = "e"
        THEN (IF call.fn = "line_pass" THEN Len(SelectedElements) ELSE Len(OrbitElements))
    ELSE call.nr_turns

\* the value that belongs at particle q, coordinate c, element e (counted in
\* the selection) and turn n of the call at hand
Expected(q, c, e, n) ==
    IF call.fn = "element_pass" THEN FieldAt(NativeCall(q).p_out, c)
    ELSE IF call.fn = "line_pass"
        THEN (IF call.indices = PyNone THEN NativeEntry(q, 0, c)
              ELSE NativeEntry(q, SelectedElements[e + 1], c))
    ELSE IF call.fn = "ring_pass"
        THEN (IF call.turn_by_turn = PyNone THEN NativeEntry(q, 0, c)
              ELSE IF call.turn_by_turn = PyStr("closed") THEN NativeEntry(q, n, c)
              ELSE IF call.turn_by_turn = PyStr("open")
                  THEN (IF n = 0 THEN call.particles.arr.data[
                                        IF Len(call.particles.arr.shape) = 1
                                        THEN <<c>> ELSE <<q, c>>]
                        ELSE NativeEntry(q, n - 1, c))
              ELSE NaN)
    ELSE FieldAt(native_closed_orbit[OrbitElements[e + 1]], c)

\* the axes of PCEN picked by S, in the order of PCEN
AxesIn(S) ==
    [k \in 1..Cardinality(S) |->
        PCEN[CHOOSE x \in S : Cardinality({y \in S : y < x}) = k - 1]]

\* the index along 'axis' in the index tuple ix of an array with the given axes
Along(axes, ix, axis) ==
    IF \E k \in DOMAIN axes : axes[k] = axis
    THEN ix[CHOOSE k \in DOMAIN axes : axes[k] = axis]
    ELSE 0

\* the array is laid out along the given axes
LaidOut(out, axes) ==
    /\ Len(axes) = Len(out.shape)
    /\ \A k \in DOMAIN axes : axes[k] \in AxesOf(call.fn) /\ out.shape[k] = Extent(axes[k])
    /\ \A ix \in DOMAIN out.data :
        out.data[ix] = Expected(Along(axes, ix, "p"), Along(axes, ix, "c"),
                                Along(axes, ix, "e"), Along(axes, ix, "n"))

PositionRoutines == {"element_pass", "line_pass", "ring_pass", "find_orbit4", "find_orbit6"}

\* the positions the finished call returned
PositionsReturned ==
    IF call.fn \in {"line_pass", "ring_pass"} THEN result.particles_out ELSE result

AtParticle(out, full_rank, q, rest) ==
    IF Len(out.shape) = full_rank THEN out.data[<<q>> \o rest] ELSE out.data[rest]

\* the shape of what ring_pass returned, the particle index put back if dropped
FullShape(out, full_rank) ==
    IF Len(out.shape) = full_rank THEN out.shape ELSE <<1>> \o out.shape

C11_CloseAndOpenFilled ==
    (/\ pc = "done"
     /\ call.fn = "ring_pass"
     /\ call.turn_by_turn \in {PyStr("close"), PyStr("open")}) =>
        LET out == result.particles_out
            Np == GivenNp(call.particles)
        IN
        /\ FullShape(out, 3) = <<Np, 6, call.nr_turns>>
        /\ \A q \in 0..(Np - 1) :
            NativeCall(q).status = 0 =>
                \A c \in 0..5, n \in 0..(call.nr_turns - 1) :
                    AtParticle(out, 3, q, <<c, n>>) # NaN

\* ------------------------------------------------ indices of line_pass
\* C12: line_pass with indices given as a list returns in particles_out[p,:,j]
\* the native trajectory entry number indices[j] of particle p, the position at
\* the entrance of that element, in the order and with the repetitions of the
\* list; 'open' stands for the list 0 .. len(accelerator)-1 and 'closed' for the
\* list 0 .. len(accelerator).
C12_IndicesSelectEntries ==
    (pc = "done" /\ call.fn = "line_pass" /\ call.indices # PyNone) =>
        LET out == result.particles_out
            Np == GivenNp(call.particles)
            sel == IF call.indices = PyStr("open") THEN [k \in 1..NrElements |-> k - 1]
                   ELSE IF call.indices = PyStr("closed")
                       THEN [k \in 1..(NrElements + 1) |-> k - 1]
                   ELSE call.indices.v
        IN
        /\ FullShape(out, 3) = <<Np, 6, Len(sel)>>
        /\ \A q \in 0..(Np - 1), c \in 0..5, j \in 0..(Len(sel) - 1) :
            /\ AtParticle(out, 3, q, <<c, j>>) = NativeEntry(q, sel[j + 1], c)
            /\ NativeCall(q).status = 0 =>
                AtParticle(out, 3, q, <<c, j>>) = After(Coord(q, c), sel[j + 1])

\* C12 witness: two surviving particles, the end of the line asked for before
\* the first element
C12_Witness ==
    /\ pc = "done"
    /\ call.fn = "line_pass"
    /\ call.indices = PyList(<<NrElements, 0>>)
    /\ GivenNp(call.particles) = 2
    /\ \A q \in 0..1 : NativeCall(q).status = 0
    /\ result.particles_out.shape = <<2, 6, 2>>
    /\ result.particles_out.data[<<1, 0, 0>>] = After(Coord(1, 0), NrElements)
    /\ result.particles_out.data[<<1, 0, 1>>] = Coord(1, 0)

\* ------------------------------------------------ element_offset
TrackingWrappers == {"track_linepass_wrapper", "track_ringpass_wrapper"}

\* C13: in line_pass and ring_pass every native tracking call is handed the
\* caller's element_offset, whatever the engine left in the offset field of the
\* shared argument object while tracking an earlier particle.
C13_OffsetResetPerParticle ==
    call.fn \in {"line_pass", "ring_pass"} =>
        \A k \in 1..Len(native_calls) :
            /\ native_calls[k].fn \in TrackingWrappers
            /\ native_calls[k].particle = k - 1
            /\ native_calls[k].element_offset = call.element_offset

\* C13 witness: the first particle was lost away from the element the caller
\* started at, and the second was tracked from the caller's offset again
C13_Witness ==
    /\ call.fn \in {"line_pass", "ring_pass"}
    /\ Len(native_calls) = 2
    /\ native_calls[1].lost_plane # 0
    /\ lost_element.v[1] # PyNone
    /\ lost_element.v[1] # PyInt(call.element_offset)
    /\ native_calls[2].element_offset = call.element_offset

\* ------------------------------------------------ the closed orbit
\* C14: find_orbit4 and find_orbit6 return the closed orbit as a 2D array, the
\* 4 (respectively 6) phase space variables in the first dimension and the
\* selected elements in the second, for every accepted value of indices; with
\* indices None the second dimension has length 1.
C14_OrbitIsTwoDimensional ==
    (pc = "done" /\ call.fn \in {"find_orbit4", "find_orbit6"}) =>
        LET nc == IF call.fn = "find_orbit4" THEN 4 ELSE 6
            sel == OrbitElements
        IN
        /\ call.indices = PyNone => Len(sel) = 1
        /\ result.shape = <<nc, Len(sel)>>
        /\ \A c \in 0..(nc - 1), e \in 0..(Len(sel) - 1) :
            result.data[<<c, e>>] = FieldAt(native_closed_orbit[sel[e + 1]], c)

\* ------------------------------------------------ the six coordinates
\* pyaccel.interactive: helpful labels for phase-space coordinates
rx == 0
px == 1
ry == 2
py == 3
de == 4
dl == 5

Label == [n \in {"rx", "px", "ry", "py", "de", "dl"} |->
            IF n = "rx" THEN rx ELSE IF n = "px" THEN px
            ELSE IF n = "ry" THEN ry ELSE IF n = "py" THEN py
            ELSE IF n = "de" THEN de ELSE dl]

\* array -> native position -> array, and native position -> array -> native
RoundTrip(a) == _CppDoublePos2Numpy(_Numpy2CppDoublePos(a))
NativeRoundTrip(pos) == _Numpy2CppDoublePos(_CppDoublePos2Numpy(pos))

\* the labelled entry of every position the finished call returned is the
\* native field of that name
LabelSelectsField(n) ==
    LET l == Label[n]
        Np == GivenNp(call.particles)
    IN
    IF call.fn = "element_pass"
    THEN \A q \in 0..(Np - 1) :
            AtParticle(result, 2, q, <<l>>) = NativeCall(q).p_out[n]
    ELSE IF call.fn = "line_pass"
    THEN IF call.indices = PyNone
         THEN \A q \in 0..(Np - 1) :
                AtParticle(result.particles_out, 2, q, <<l>>) = NativeCall(q).p_out[0][n]
         ELSE \A q \in 0..(Np - 1), j \in 0..(Len(SelectedElements) - 1) :
                AtParticle(result.particles_out, 3, q, <<l, j>>)
                    = NativeCall(q).p_out[SelectedElements[j + 1]][n]
    ELSE IF call.fn = "ring_pass"
    THEN IF call.turn_by_turn = PyNone
         THEN \A q \in 0..(Np - 1) :
                AtParticle(result.particles_out, 2, q, <<l>>) = NativeCall(q).p_out[0][n]
         ELSE IF call.turn_by_turn = PyStr("closed")
         THEN \A q \in 0..(Np - 1), t \in 0..(call.nr_turns - 1) :
                AtParticle(result.particles_out, 3, q, <<l, t>>) = NativeCall(q).p_out[t][n]
         ELSE IF call.turn_by_turn = PyStr("open")
         THEN \A q \in 0..(Np - 1) :
                /\ AtParticle(result.particles_out, 3, q, <<l, 0>>)
                    = _Numpy2CppDoublePos(Row(particles, q))[n]
                /\ \A t \in 1..(call.nr_turns - 1) :
                    AtParticle(result.particles_out, 3, q, <<l, t>>)
                        = NativeCall(q).p_out[t - 1][n]
         ELSE TRUE
    ELSE (call.fn = "find_orbit4" => l < 4) =>
            \A e \in 0..(Len(OrbitElements) - 1) :
                result.data[IF Len(result.shape) = 1 THEN <<l>> ELSE <<l, e>>]
                    = native_closed_orbit[OrbitElements[e + 1]][n]

\* C15: a position is the 6-vector rx, px, ry, py, de, dl: converting an array
\* to the native position and back gives the same six values in the same order
\* (and so does the other way round), and the labels rx=0, px=1, ry=2, py=3,
\* de=4, dl=5 select the field of the same name in every position array the
\* tracking routines return. The positions given are looked at when the call
\* starts and the native positions when the engine hands them over: neither
\* changes afterwards.
C15_RoundTripAndLabels ==
    /\ (pc # "idle" /\ "particles" \in DOMAIN call /\ i = 0) =>
        \A q \in 0..(particles.shape[1] - 1) :
            LET row == Row(particles, q) IN
            /\ RoundTrip(row) = row
            /\ \A n \in DOMAIN Label : row.data[<<Label[n]>>] = _Numpy2CppDoublePos(row)[n]
    /\ (native_calls # <<>> /\ native_calls[Len(native_calls)].fn \in TrackingWrappers) =>
        LET p_out == native_calls[Len(native_calls)].p_out IN
        \A e \in DOMAIN p_out : NativeRoundTrip(p_out[e]) = p_out[e]
    /\ (pc = "done" /\ call.fn \in PositionRoutines) =>
        \A n \in DOMAIN Label : LabelSelectsField(n)

\* C15 witness: element_pass returned two tracked particles, and the entry
\* labelled de of the second is the native field de
C15_Witness ==
    /\ pc = "done"
    /\ call.fn = "element_pass"
    /\ GivenNp(call.particles) = 2
    /\ RoundTrip(Row(particles, 1)) = Row(particles, 1)
    /\ Row(particles, 1).data[<<de>>] = Coord(1, 4)
    /\ result.data[<<1, de>>] = NativeCall(1).p_out.de
    /\ NativeCall(1).p_out.de = After(Coord(1, 4), 1)

====
